---- MODULE Spec2Model ----
(***************************************************************************)
(* A model of bot.py, the Raid-Helper sign-up bot: the identifier          *)
(* extractor, the event fetcher, the roster classifier, the two command    *)
(* handlers `signups` and `compare`, and the embed formatter.              *)
(*                                                                         *)
(* Strings are TLA+ strings, one character per code point.  The module     *)
(* language has no non-ASCII characters and no backtick in strings, so the *)
(* glyphs the program writes are replaced by ASCII characters; those that  *)
(* enter a length the program computes are replaced one for one:           *)
(*    the ellipsis -> "~",  the box-drawing dash -> "-",                   *)
(*    the backtick -> "'",  the cross mark -> "X",                         *)
(*    the check marks of the titles -> "V", "v",                           *)
(*    the class emojis -> "#H", "#T", "#M", "#R", "#L", the fallback "?".  *)
(* A Python dict is a sequence of <<key, value>> pairs in insertion order. *)
(* A JSON object is a record; a key the object lacks is a field the record *)
(* lacks.  None is the record NoneVal.                                     *)
(*                                                                         *)
(* Limits of the model: JSON values are strings (no null, no numbers);     *)
(* \d is an ASCII digit; ctx.send always delivers; one command invocation  *)
(* runs at a time (the handlers share no state).                           *)
(***************************************************************************)
EXTENDS Integers, Sequences, FiniteSets, TLC

VARIABLES
    pc,           \* "idle", the suspension point of the running handler
                  \* ("signups_fetch", "compare_fetch1", "compare_fetch2",
                  \* "compare_sleep"), or "done" when it has ended
    cmd,          \* the command of the running (or last finished) invocation
    event_id1,    \* signups: event_id;  compare: event_id1
    event_id2,    \* compare: event_id2
    data1,        \* signups: data;  compare: data1
    data2,        \* compare: data2
    signups_grouped, \* signups: grouped
    both_grouped, \* compare: both_grouped
    one_grouped,  \* compare: one_grouped
    embed_one,    \* compare: embed_one, built before the first send
    sent,         \* the messages ctx.send delivered in this invocation
    requests,     \* the URLs session.get requested in this invocation
    responses,    \* number of those requests that have completed
    paused,       \* number of asyncio.sleep(1) pauses taken in this invocation
    raised,       \* the exception that ended the invocation, "" if none
    ex_arg,       \* extractor run: the input string
    ex_pc,        \* extractor run: "new", "once", "twice"
    ex_res,       \* extractor run: extract_event_id(ex_arg)
    ex_res2,      \* extractor run: extract_event_id(ex_res)
    fm_grouped,   \* formatter run: the grouped roster passed in
    fm_pc,        \* formatter run: "new", "built"
    fm_embed      \* formatter run: build_signups_embed(title, fm_grouped)

botVars == <<pc, cmd, event_id1, event_id2, data1, data2, signups_grouped,
             both_grouped, one_grouped, embed_one, sent, requests, responses,
             paused, raised>>
exVars == <<ex_arg, ex_pc, ex_res, ex_res2>>
fmVars == <<fm_grouped, fm_pc, fm_embed>>

vars == <<botVars, exVars, fmVars>>

\* None
NoneVal == [none |-> TRUE]

-----------------------------------------------------------------------------
(* Strings *)

CharAt(s, i) == SubSeq(s, i, i)

\* s[a:b] of Python, 0-based half-open, clipped to the string
Slice(s, a, b) ==
    LET hi == IF b > Len(s) THEN Len(s) ELSE b
    IN  IF a >= hi THEN "" ELSE SubSeq(s, a + 1, hi)

\* t occurs in s as a contiguous substring (Python: t in s)
Contains(s, t) ==
    \E i \in 0..(Len(s) - Len(t)) : Slice(s, i, i + Len(t)) = t

IsDigit(c) == c \in {"0", "1", "2", "3", "4", "5", "6", "7", "8", "9"}

-----------------------------------------------------------------------------
(* extract_event_id: re.search(r"(?:event/)?(\d{10,})$", arg) *)

MinDigits == 10

\* 1-based index just past the maximal run of digits that starts at index i
RECURSIVE DigitRunEnd(_, _)
DigitRunEnd(s, i) ==
    IF i <= Len(s) /\ IsDigit(CharAt(s, i)) THEN DigitRunEnd(s, i + 1) ELSE i

\* `$` without re.MULTILINE: at the end of the string, or just before a
\* newline that is the last character of the string
DollarAt(s, p) ==
    \/ p = Len(s) + 1
    \/ p = Len(s) /\ CharAt(s, p) = "\n"

\* (\d{10,})$ anchored at index i: the greedy run must be the whole maximal
\* run, since after any shorter prefix of it the next character is a digit
\* and `$` cannot match there
DigitsThenEnd(s, i) ==
    LET e == DigitRunEnd(s, i)
    IN  IF e - i >= MinDigits /\ DollarAt(s, e)
        THEN [found |-> TRUE, group1 |-> SubSeq(s, i, e - 1),
              group0 |-> SubSeq(s, i, e - 1)]
        ELSE [found |-> FALSE]

\* the whole pattern anchored at index i: the optional group is tried first
\* with "event/", then without
MatchAt(s, i) ==
    LET withPrefix ==
            IF i + 5 <= Len(s) /\ SubSeq(s, i, i + 5) = "event/"
            THEN DigitsThenEnd(s, i + 6)
            ELSE [found |-> FALSE]
    IN  IF withPrefix.found
        THEN [found |-> TRUE, group1 |-> withPrefix.group1,
              group0 |-> "event/" \o withPrefix.group1]
        ELSE DigitsThenEnd(s, i)

\* re.search: the match at the leftmost index that has one
ReSearch(s) ==
    LET starts == {i \in 1..(Len(s) + 1) : MatchAt(s, i).found}
    IN  IF starts = {} THEN [found |-> FALSE]
        ELSE MatchAt(s, CHOOSE i \in starts : \A j \in starts : i <= j)

\* a slip that returns the whole match instead of the capture group
extract_event_id_group0(arg) ==
    LET match == ReSearch(arg)
    IN  IF match.found THEN match.group0 ELSE arg

extract_event_id(arg) ==
    LET match == ReSearch(arg)
    IN  IF match.found THEN match.group1 ELSE arg

-----------------------------------------------------------------------------
(* Runs of the extractor on its own *)

MaxDigits == 12

DigitString == "12345678901234567890"

ExtractPrefixes ==
    {"", "x", "7", "event/", "https://raid-helper.dev/event/", "event", "/",
     "1x", "\n", "event/x"}

ExtractSuffixes == {"", "\n", "\n\n", "x", "/", " "}

ExtractInputs ==
    {p \o SubSeq(DigitString, 1, k) \o q :
        p \in ExtractPrefixes, k \in 0..MaxDigits, q \in ExtractSuffixes}

InitBotIdle ==
    /\ pc = "idle"
    /\ cmd = "none"
    /\ event_id1 = ""
    /\ event_id2 = ""
    /\ data1 = NoneVal
    /\ data2 = NoneVal
    /\ signups_grouped = <<>>
    /\ both_grouped = <<>>
    /\ one_grouped = <<>>
    /\ embed_one = NoneVal
    /\ sent = <<>>
    /\ requests = <<>>
    /\ responses = 0
    /\ paused = 0
    /\ raised = ""

InitFmIdle ==
    /\ fm_grouped = <<>>
    /\ fm_pc = "off"
    /\ fm_embed = NoneVal

InitExIdle ==
    /\ ex_arg = ""
    /\ ex_pc = "off"
    /\ ex_res = ""
    /\ ex_res2 = ""

InitExtract ==
    /\ InitBotIdle
    /\ InitFmIdle
    /\ ex_arg \in ExtractInputs
    /\ ex_pc = "new"
    /\ ex_res = ""
    /\ ex_res2 = ""

ExtractOnce ==
    /\ ex_pc = "new"
    /\ ex_res' = extract_event_id(ex_arg)
    /\ ex_pc' = "once"
    /\ UNCHANGED <<ex_arg, ex_res2, botVars, fmVars>>

ExtractTwice ==
    /\ ex_pc = "once"
    /\ ex_res2' = extract_event_id(ex_res)
    /\ ex_pc' = "twice"
    /\ UNCHANGED <<ex_arg, ex_res, botVars, fmVars>>

NextExtract == ExtractOnce \/ ExtractTwice

SpecExtract == InitExtract /\ [][NextExtract]_vars

-----------------------------------------------------------------------------
(* C9 *)

\* 1-based index of the first character of the maximal run of digits that
\* ends at index e (e + 1 when the character at e is not a digit)
RECURSIVE TrailingRunStart(_, _)
TrailingRunStart(s, e) ==
    IF e >= 1 /\ IsDigit(CharAt(s, e)) THEN TrailingRunStart(s, e - 1) ELSE e + 1

\* what the claim says the extractor returns when the digits must reach the
\* index `last` of the string
ExpectedEndingAt(s, last) ==
    LET b == TrailingRunStart(s, last)
    IN  IF last - b + 1 >= MinDigits THEN SubSeq(s, b, last) ELSE s

\* the input without its final newline, if it has one
LastBeforeNewline(s) ==
    IF Len(s) >= 1 /\ CharAt(s, Len(s)) = "\n" THEN Len(s) - 1 ELSE Len(s)

\* C9 as stated: an input that ends with a run of 10 or more digits yields
\* exactly that run, every other input is returned unchanged, and extracting
\* twice equals extracting once.
C9_AsStated ==
    ex_pc = "twice" =>
        /\ ex_res = ExpectedEndingAt(ex_arg, Len(ex_arg))
        /\ ex_res2 = ex_res

\* C9 amended: the run of 10 or more digits may be followed by one final
\* newline, which is dropped with everything before the run; every other
\* input is returned unchanged; and extracting twice equals extracting once.
C9_Extract ==
    ex_pc = "twice" =>
        /\ ex_res = ExpectedEndingAt(ex_arg, LastBeforeNewline(ex_arg))
        /\ ex_res2 = ex_res

\* a URL whose 10-digit id is followed by a newline was reduced to the id
C9_Witness ==
    /\ ex_pc = "twice"
    /\ ex_arg = "https://raid-helper.dev/event/1234567890\n"
    /\ ex_res = "1234567890"
    /\ ex_res2 = "1234567890"

-----------------------------------------------------------------------------
(* Python dicts as sequences of <<key, value>> pairs in insertion order *)

DictKeys(d) == {d[i][1] : i \in DOMAIN d}

DictHas(d, k) == \E i \in DOMAIN d : d[i][1] = k

DictIndex(d, k) == CHOOSE i \in DOMAIN d : d[i][1] = k

\* d[k] for a key the dict has
DictAt(d, k) == d[DictIndex(d, k)][2]

\* d[k] = v: a new key goes last, an old key keeps its place
DictSet(d, k, v) ==
    IF DictHas(d, k)
    THEN [d EXCEPT ![DictIndex(d, k)] = <<k, v>>]
    ELSE Append(d, <<k, v>>)

\* d.setdefault(k, []).append(v)
DictAppendTo(d, k, v) ==
    IF DictHas(d, k)
    THEN [d EXCEPT ![DictIndex(d, k)] = <<k, Append(d[DictIndex(d, k)][2], v)>>]
    ELSE Append(d, <<k, <<v>> >>)

\* {**a, **b}
RECURSIVE DictMerge(_, _)
DictMerge(a, b) ==
    IF b = <<>> THEN a
    ELSE DictMerge(DictSet(a, Head(b)[1], Head(b)[2]), Tail(b))

-----------------------------------------------------------------------------
(* build_signups_embed *)

\* the characters of the model in code point order; only the relative order
\* matters to sorted()
CodeOrder ==
    "\n #'-/0123456789?ABCDEFGHIJKLMNOPQRSTUVWXYZ_abcdefghijklmnopqrstuvwxyz~"

Ord(c) == CHOOSE i \in 1..Len(CodeOrder) : CharAt(CodeOrder, i) = c

\* a < b on Python strings
RECURSIVE StrLess(_, _)
StrLess(a, b) ==
    IF b = "" THEN FALSE
    ELSE IF a = "" THEN TRUE
    ELSE IF Head(a) = Head(b) THEN StrLess(Tail(a), Tail(b))
    ELSE Ord(Head(a)) < Ord(Head(b))

\* sorted(S) for a set of distinct strings
RECURSIVE SortedStrings(_)
SortedStrings(S) ==
    IF S = {} THEN <<>>
    ELSE LET m == CHOOSE x \in S : \A y \in S : x = y \/ StrLess(x, y)
         IN  <<m>> \o SortedStrings(S \ {m})

\* sep.join(names)
RECURSIVE Join(_, _)
Join(names, sep) ==
    IF names = <<>> THEN ""
    ELSE IF Len(names) = 1 THEN names[1]
    ELSE names[1] \o sep \o Join(Tail(names), sep)

\* s * n
RECURSIVE Repeat(_, _)
Repeat(s, n) ==
    IF n = 0 THEN ""
    ELSE IF n % 2 = 0 THEN LET h == Repeat(s, n \div 2) IN h \o h
    ELSE Repeat(s, n - 1) \o s

CLASS_EMOJIS ==
    <<  <<"Healer", "#H">>, <<"Tank", "#T">>, <<"Melee", "#M">>,
        <<"Ranged", "#R">>, <<"Late", "#L">>  >>

\* CLASS_EMOJIS.get(class_name, fallback glyph)
EmojiOf(class_name) ==
    IF DictHas(CLASS_EMOJIS, class_name) THEN DictAt(CLASS_EMOJIS, class_name) ELSE "?"

TruncateAt == 1000

SeparatorWidth == 20

FieldValueLimit == 1024

\* lines 64-69 with a threshold other than the one of the code
FieldBodyCutAt(names_list, limit) ==
    LET names == Join(names_list, "\n")
    IN  IF names = "" THEN "_None_"
        ELSE IF Len(names) > limit THEN Slice(names, 0, limit) \o "~"
        ELSE names

\* a slip that truncates at the field ceiling itself, leaving no headroom
FieldBody_NoHeadroom(names_list) == FieldBodyCutAt(names_list, FieldValueLimit)

\* lines 64-69: the body of one section
FieldBody(names_list) == FieldBodyCutAt(names_list, TruncateAt)

\* lines 70-74: embed.add_field for one category
EmbedField(grouped, class_name) ==
    [name  |-> EmojiOf(class_name) \o " " \o class_name,
     value |-> FieldBody(DictAt(grouped, class_name)) \o "\n"
                   \o Repeat("-", SeparatorWidth)]

\* line 61: sorted(grouped.keys())
EmbedOrder(grouped) == SortedStrings(DictKeys(grouped))

build_signups_embed(title, grouped) ==
    LET order == EmbedOrder(grouped)
    IN  [title  |-> title,
         fields |-> [i \in DOMAIN order |-> EmbedField(grouped, order[i])]]

-----------------------------------------------------------------------------
(* Runs of the formatter on its own *)

MaxNameLen == 1001

MaxNames == 2

MaxCategories == 3

FormatNameLens == {1, 1000, MaxNameLen}

FormatNames == {Repeat("a", n) : n \in FormatNameLens}

SeqsUpTo(S, n) == UNION {[1..k -> S] : k \in 0..n}

FormatNameLists == SeqsUpTo(FormatNames, MaxNames)

FormatShortLists == {<<>>, <<"Bo">>}

FormatCategories == {"Healer", "Tank", "healer", ""}

Injective(f) == \A i, j \in DOMAIN f : f[i] = f[j] => i = j

FormatKeyOrders == {ks \in SeqsUpTo(FormatCategories, MaxCategories) : Injective(ks)}

\* a grouped roster: the first inserted category carries any list of names,
\* the later ones a short list
FormatInputs ==
    UNION { { [i \in DOMAIN ks |-> <<ks[i], IF i = 1 THEN first ELSE rest[i]>>] :
                first \in FormatNameLists,
                rest \in [DOMAIN ks -> FormatShortLists] } :
            ks \in FormatKeyOrders }

InitFormat ==
    /\ InitBotIdle
    /\ InitExIdle
    /\ fm_grouped \in FormatInputs
    /\ fm_pc = "new"
    /\ fm_embed = NoneVal

FormatBuild ==
    /\ fm_pc = "new"
    /\ fm_embed' = build_signups_embed("Active Signups", fm_grouped)
    /\ fm_pc' = "built"
    /\ UNCHANGED <<fm_grouped, botVars, exVars>>

NextFormat == FormatBuild

SpecFormat == InitFormat /\ [][NextFormat]_vars

-----------------------------------------------------------------------------
(* C8 *)

\* the category a section was rendered for, read back from its label
FieldCategory(f, grouped) ==
    CHOOSE c \in DictKeys(grouped) : f.name = EmojiOf(c) \o " " \o c

\* the body of a section, read back from its value
FieldBodyOf(f) == Slice(f.value, 0, Len(f.value) - SeparatorWidth - 1)

\* C8: the embed has one section per category, in lexicographic order of
\* category name; a section body is the names joined by newline, the
\* placeholder when that text is empty, and the first 1000 characters plus an
\* ellipsis when it is longer than 1000; no body exceeds 1001 characters and
\* no section value exceeds the 1024-character field ceiling.
C8_Formatter ==
    fm_pc = "built" =>
        LET fields == fm_embed.fields
        IN  /\ Len(fields) = Cardinality(DictKeys(fm_grouped))
            /\ \A c \in DictKeys(fm_grouped) :
                   \E i \in DOMAIN fields : fields[i].name = EmojiOf(c) \o " " \o c
            /\ \A i \in DOMAIN fields : i > 1 =>
                   StrLess(FieldCategory(fields[i - 1], fm_grouped),
                           FieldCategory(fields[i], fm_grouped))
            /\ \A i \in DOMAIN fields :
                   LET joined == Join(DictAt(fm_grouped, FieldCategory(fields[i], fm_grouped)), "\n")
                       body   == FieldBodyOf(fields[i])
                   IN  /\ fields[i].value = body \o "\n--------------------"
                       /\ joined = "" => body = "_None_"
                       /\ joined # "" /\ Len(joined) <= 1000 => body = joined
                       /\ Len(joined) > 1000 =>
                              /\ Len(body) = 1001
                              /\ Slice(body, 0, 1000) = Slice(joined, 0, 1000)
                              /\ Slice(body, 1000, 1001) = "~"
                       /\ Len(body) <= 1001
                       /\ Len(fields[i].value) <= FieldValueLimit

\* an embed was built that has a truncated section, a placeholder section
\* and a section that sorts before the category inserted first
C8_Witness ==
    /\ fm_pc = "built"
    /\ Len(fm_embed.fields) = 3
    /\ fm_grouped[1][1] = "healer"
    /\ Len(Join(fm_grouped[1][2], "\n")) > FieldValueLimit
    /\ Len(fm_embed.fields[3].value) = 1022
    /\ \E i \in 1..2 : FieldBodyOf(fm_embed.fields[i]) = "_None_"

-----------------------------------------------------------------------------
(* fetch_event_json *)

EventUrl(event_id) == "https://raid-helper.dev/api/v2/events/" \o event_id

\* lines 42-45: the JSON body on status 200, None on any other status
FetchResult(outcome) ==
    IF outcome.status = 200 THEN outcome.json ELSE NoneVal

-----------------------------------------------------------------------------
(* parse_active_signups and get_class_map *)

EXCLUDED_CLASSES == {"Tentative", "Bench", "Absence"}

HasKey(entry, k) == k \in DOMAIN entry

\* entry.get(k) is truthy: the key is there and its string is not empty
Truthy(entry, k) == HasKey(entry, k) /\ entry[k] # ""

\* lines 55-56 (and 95-96, 133-134): the filter of the comprehensions;
\* entry.get("className") is None for a missing key, and None is not in the
\* tuple
Qualifies(entry) ==
    /\ ~HasKey(entry, "className") \/ entry.className \notin EXCLUDED_CLASSES
    /\ Truthy(entry, "userId")
    /\ Truthy(entry, "name")

\* data.get("signUps", [])
SignUpsOf(data) == IF "signUps" \in DOMAIN data THEN data.signUps ELSE <<>>

\* {entry["userId"]: entry[k] for entry in entries if <filter>}, built on d
RECURSIVE DictComprehension(_, _, _)
DictComprehension(entries, k, d) ==
    IF entries = <<>> THEN d
    ELSE LET entry == Head(entries)
         IN  DictComprehension(Tail(entries), k,
                 IF Qualifies(entry) THEN DictSet(d, entry.userId, entry[k]) ELSE d)

parse_active_signups(data) == DictComprehension(SignUpsOf(data), "name", <<>>)

\* entry["className"] raises KeyError for an entry that passed the filter
\* without a className key
ClassMapRaises(data) ==
    \E i \in DOMAIN SignUpsOf(data) :
        Qualifies(SignUpsOf(data)[i]) /\ ~HasKey(SignUpsOf(data)[i], "className")

\* defined when ClassMapRaises(data) is false
get_class_map(data) == DictComprehension(SignUpsOf(data), "className", <<>>)

-----------------------------------------------------------------------------
(* signups, lines 100-103 *)

RECURSIVE GroupItems(_, _, _)
GroupItems(items, class_map, g) ==
    IF items = <<>> THEN g
    ELSE LET uid        == Head(items)[1]
             name       == Head(items)[2]
             class_name == IF DictHas(class_map, uid) THEN DictAt(class_map, uid)
                           ELSE "Unknown"
         IN  GroupItems(Tail(items), class_map, DictAppendTo(g, class_name, name))

-----------------------------------------------------------------------------
(* compare_signups, lines 140-156 *)

\* a slip that takes the union
BothIds_Union(ids1, ids2) == ids1 \cup ids2

\* ids1 & ids2
BothIds(ids1, ids2) == ids1 \cap ids2

\* ids1 ^ ids2
OneIds(ids1, ids2) == (ids1 \ ids2) \cup (ids2 \ ids1)

\* the orders in which a Python set may be iterated
IterationOrders(S) == {f \in [1..Cardinality(S) -> S] : Injective(f)}

\* group_by_class, for one iteration order of the set ids
RECURSIVE group_by_class(_, _, _, _)
group_by_class(ids, signups, class_map, g) ==
    IF ids = <<>> THEN g
    ELSE LET uid == Head(ids)
             ok  == /\ DictHas(signups, uid)   /\ DictAt(signups, uid) # ""
                    /\ DictHas(class_map, uid) /\ DictAt(class_map, uid) # ""
         IN  group_by_class(Tail(ids), signups, class_map,
                 IF ok THEN DictAppendTo(g, DictAt(class_map, uid), DictAt(signups, uid))
                 ELSE g)

\* a slip that anchors the BOTH display to the second event
BothSource_Second(d1, d2) == d2

\* line 155: the BOTH display takes names and classes from the first event
BothSource(d1, d2) == d1

\* a slip that tests `and`
FetchFailed_And(d1, d2) == d1 = NoneVal /\ d2 = NoneVal

\* line 122
FetchFailed(d1, d2) == d1 = NoneVal \/ d2 = NoneVal

-----------------------------------------------------------------------------
(* Messages *)

TextMsg(content) == [content |-> content]

EmbedMsg(embed) == [embed |-> embed]

IsEmbed(m) == "embed" \in DOMAIN m

IsText(m) == "content" \in DOMAIN m

SignupsFetchFailedText(event_id) ==
    "X Could not fetch event details for ID '" \o event_id \o "'."

NoActiveSignupsText == "No active signups found for this event."

CompareFetchFailedText == "X Could not fetch one or both event details."

TitleActive == "Active Signups"

TitleBoth == "V Signed up for BOTH events"

TitleOne == "v Signed up for ONLY ONE event"

Digit(n) == CharAt("0123456789", n + 1)

\* str(n) for n >= 0
RECURSIVE IntToStr(_)
IntToStr(n) == IF n < 10 THEN Digit(n) ELSE IntToStr(n \div 10) \o Digit(n % 10)

PongText(ms) == "Pong! latency=" \o IntToStr(ms) \o "ms"

-----------------------------------------------------------------------------
(* Inputs of the bot *)

MaxSignUps == 2

Entries ==
    { [userId |-> "a", name |-> "Al",  className |-> "Healer"],
      [userId |-> "b", name |-> "Bo",  className |-> "Tank"],
      [userId |-> "a", name |-> "Ann", className |-> "Tank"],
      [userId |-> "b", name |-> "Bo",  className |-> "Bench"],
      [userId |-> "c", name |-> "Cy",  className |-> ""],
      [userId |-> "c", name |-> "Cy"],
      [userId |-> "",  name |-> "Di",  className |-> "Healer"] }

Payloads ==
    {[signUps |-> su] : su \in SeqsUpTo(Entries, MaxSignUps)} \cup {[title |-> "Raid"]}

Statuses == {200, 404}

\* what one session.get can end in: a response, or a transport-level
\* failure, which aiohttp raises as ClientError
FetchOutcomes ==
    {[kind |-> "response", status |-> 200, json |-> j] : j \in Payloads}
        \cup {[kind |-> "response", status |-> st] : st \in Statuses \ {200}}
        \cup {[kind |-> "error"]}

Args == {"42", "https://raid-helper.dev/event/1234567890"}

\* the argument pairs given to compare
ArgPairs == {<<"42", "https://raid-helper.dev/event/1234567890">>}

LatenciesMs == {0, 87}

-----------------------------------------------------------------------------
(* The command handlers.  One invocation runs at a time; a handler runs    *)
(* from one suspension point to the next in one step.  An exception that   *)
(* leaves a handler ends the invocation; the framework logs it and the bot *)
(* goes on.                                                                *)

\* a new invocation starts when no other one runs
StartInvocation(c) ==
    /\ pc = "idle"
    /\ cmd' = c

\* the handler ends by an exception: nothing more is sent
Raise(exc) ==
    /\ raised' = exc
    /\ pc' = "done"

\* ping, lines 170-173
Ping ==
    /\ StartInvocation("ping")
    /\ \E ms \in LatenciesMs : sent' = <<TextMsg(PongText(ms))>>
    /\ pc' = "done"
    /\ UNCHANGED <<event_id1, event_id2, data1, data2, signups_grouped,
                   both_grouped, one_grouped, embed_one, requests, responses,
                   paused, raised, exVars, fmVars>>

\* signups, lines 80-81 up to the request of the fetch
SignupsInvoke ==
    /\ StartInvocation("signups")
    /\ \E event_arg \in Args :
          /\ event_id1' = extract_event_id(event_arg)
          /\ requests' = <<EventUrl(extract_event_id(event_arg))>>
    /\ pc' = "signups_fetch"
    /\ UNCHANGED <<event_id2, data1, data2, signups_grouped, both_grouped,
                   one_grouped, embed_one, sent, responses, paused, raised,
                   exVars, fmVars>>

\* signups, lines 81-106 from the end of the fetch
SignupsResume ==
    /\ pc = "signups_fetch"
    /\ responses' = responses + 1
    /\ \E outcome \in FetchOutcomes :
          IF outcome.kind = "error"
          THEN /\ Raise("ClientError")
               /\ UNCHANGED <<data1, signups_grouped, sent>>
          ELSE LET data     == FetchResult(outcome)
                   filtered == parse_active_signups(data)
               IN  /\ data1' = data
                   /\ IF data = NoneVal
                      THEN /\ sent' = Append(sent, TextMsg(SignupsFetchFailedText(event_id1)))
                           /\ pc' = "done"
                           /\ UNCHANGED <<signups_grouped, raised>>
                      ELSE IF filtered = <<>>
                      THEN /\ sent' = Append(sent, TextMsg(NoActiveSignupsText))
                           /\ pc' = "done"
                           /\ UNCHANGED <<signups_grouped, raised>>
                      ELSE IF ClassMapRaises(data)
                      THEN /\ Raise("KeyError")
                           /\ UNCHANGED <<signups_grouped, sent>>
                      ELSE LET g == GroupItems(filtered, get_class_map(data), <<>>)
                           IN  /\ signups_grouped' = g
                               /\ sent' = Append(sent, EmbedMsg(build_signups_embed(TitleActive, g)))
                               /\ pc' = "done"
                               /\ UNCHANGED raised
    /\ UNCHANGED <<cmd, event_id1, event_id2, data2, both_grouped, one_grouped,
                   embed_one, requests, paused, exVars, fmVars>>

\* compare, lines 116-119 up to the request of the first fetch
CompareInvoke ==
    /\ StartInvocation("compare")
    /\ \E event_args \in ArgPairs :
          /\ event_id1' = extract_event_id(event_args[1])
          /\ event_id2' = extract_event_id(event_args[2])
          /\ requests' = <<EventUrl(extract_event_id(event_args[1]))>>
    /\ pc' = "compare_fetch1"
    /\ UNCHANGED <<data1, data2, signups_grouped, both_grouped, one_grouped,
                   embed_one, sent, responses, paused, raised, exVars, fmVars>>

\* compare, lines 119-120: the first fetch ends, the second is requested
CompareResume1 ==
    /\ pc = "compare_fetch1"
    /\ responses' = responses + 1
    /\ \E outcome \in FetchOutcomes :
          IF outcome.kind = "error"
          THEN /\ Raise("ClientError")
               /\ UNCHANGED <<data1, requests>>
          ELSE /\ data1' = FetchResult(outcome)
               /\ requests' = Append(requests, EventUrl(event_id2))
               /\ pc' = "compare_fetch2"
               /\ UNCHANGED raised
    /\ UNCHANGED <<cmd, event_id1, event_id2, data2, signups_grouped, both_grouped,
                   one_grouped, embed_one, sent, paused, exVars, fmVars>>

\* compare, lines 120-162: the second fetch ends; up to the pause
CompareResume2 ==
    /\ pc = "compare_fetch2"
    /\ responses' = responses + 1
    /\ \E outcome \in FetchOutcomes :
          IF outcome.kind = "error"
          THEN /\ Raise("ClientError")
               /\ UNCHANGED <<data2, both_grouped, one_grouped, embed_one, sent>>
          ELSE LET d2 == FetchResult(outcome)
               IN  /\ data2' = d2
                   /\ IF FetchFailed(data1, d2)
                      THEN /\ sent' = Append(sent, TextMsg(CompareFetchFailedText))
                           /\ pc' = "done"
                           /\ UNCHANGED <<both_grouped, one_grouped, embed_one, raised>>
                      ELSE IF ClassMapRaises(data1) \/ ClassMapRaises(d2)
                      THEN /\ Raise("KeyError")
                           /\ UNCHANGED <<both_grouped, one_grouped, embed_one, sent>>
                      ELSE LET signups1   == parse_active_signups(data1)
                               signups2   == parse_active_signups(d2)
                               class_map1 == get_class_map(data1)
                               class_map2 == get_class_map(d2)
                               ids1       == DictKeys(signups1)
                               ids2       == DictKeys(signups2)
                               both_ids   == BothIds(ids1, ids2)
                               one_ids    == OneIds(ids1, ids2)
                           IN  \E both_order \in IterationOrders(both_ids),
                                  one_order \in IterationOrders(one_ids) :
                                  LET bg == group_by_class(both_order,
                                                BothSource(signups1, signups2),
                                                BothSource(class_map1, class_map2), <<>>)
                                      og == group_by_class(one_order,
                                                DictMerge(signups1, signups2),
                                                DictMerge(class_map1, class_map2), <<>>)
                                  IN  /\ both_grouped' = bg
                                      /\ one_grouped' = og
                                      /\ embed_one' = build_signups_embed(TitleOne, og)
                                      /\ sent' = Append(sent, EmbedMsg(build_signups_embed(TitleBoth, bg)))
                                      /\ pc' = "compare_sleep"
                                      /\ UNCHANGED raised
    /\ UNCHANGED <<cmd, event_id1, event_id2, data1, signups_grouped, requests,
                   paused, exVars, fmVars>>

\* compare, lines 162-163: the pause ends, the second embed is sent
CompareWake ==
    /\ pc = "compare_sleep"
    /\ paused' = paused + 1
    /\ sent' = Append(sent, EmbedMsg(embed_one))
    /\ pc' = "done"
    /\ UNCHANGED <<cmd, event_id1, event_id2, data1, data2, signups_grouped,
                   both_grouped, one_grouped, embed_one, requests, responses,
                   raised, exVars, fmVars>>

\* the invocation is over: its frame is gone and the bot takes the next
\* command
Return ==
    /\ pc = "done"
    /\ pc' = "idle"
    /\ cmd' = "none"
    /\ event_id1' = ""
    /\ event_id2' = ""
    /\ data1' = NoneVal
    /\ data2' = NoneVal
    /\ signups_grouped' = <<>>
    /\ both_grouped' = <<>>
    /\ one_grouped' = <<>>
    /\ embed_one' = NoneVal
    /\ sent' = <<>>
    /\ requests' = <<>>
    /\ responses' = 0
    /\ paused' = 0
    /\ raised' = ""
    /\ UNCHANGED <<exVars, fmVars>>

Init == InitBotIdle /\ InitExIdle /\ InitFmIdle

Next ==
    \/ Ping
    \/ SignupsInvoke
    \/ SignupsResume
    \/ CompareInvoke
    \/ CompareResume1
    \/ CompareResume2
    \/ CompareWake
    \/ Return

Spec == Init /\ [][Next]_vars

-----------------------------------------------------------------------------
(* What the claims say of a fetched event, read from the raw entries *)

\* the positions of the entries of data that pass the inclusion rule
IncludedAt(data) == {i \in DOMAIN SignUpsOf(data) : Qualifies(SignUpsOf(data)[i])}

\* the userIds of the roster of data
IdsOf(data) == {SignUpsOf(data)[i].userId : i \in IncludedAt(data)}

\* the entry that decides the name and class of uid: the last included one
EntryOf(data, uid) ==
    LET at == {i \in IncludedAt(data) : SignUpsOf(data)[i].userId = uid}
    IN  SignUpsOf(data)[CHOOSE i \in at : \A j \in at : j <= i]

\* the position at which uid is first encountered
FirstAt(data, uid) ==
    LET at == {i \in IncludedAt(data) : SignUpsOf(data)[i].userId = uid}
    IN  CHOOSE i \in at : \A j \in at : i <= j

NameOf(data, uid) == EntryOf(data, uid).name

ClassOf(data, uid) == EntryOf(data, uid).className

\* some included entry has no className key
LacksClassName(data) ==
    \E i \in IncludedAt(data) : ~HasKey(SignUpsOf(data)[i], "className")

\* the category of uid cannot be resolved: className missing or empty
Unresolved(data, uid) ==
    \/ ~HasKey(EntryOf(data, uid), "className")
    \/ ClassOf(data, uid) = ""

\* how often name n stands under category c of the grouped roster g
CountIn(g, c, n) ==
    IF DictHas(g, c)
    THEN Cardinality({i \in DOMAIN DictAt(g, c) : DictAt(g, c)[i] = n})
    ELSE 0

\* how often name n stands in the grouped roster g at all
RECURSIVE CountAll(_, _)
CountAll(g, n) ==
    IF g = <<>> THEN 0
    ELSE Cardinality({i \in DOMAIN Head(g)[2] : Head(g)[2][i] = n}) + CountAll(Tail(g), n)

ClassesIn(data) ==
    {SignUpsOf(data)[i].className :
        i \in {j \in DOMAIN SignUpsOf(data) : HasKey(SignUpsOf(data)[j], "className")}}

NamesIn(data) ==
    {SignUpsOf(data)[i].name :
        i \in {j \in DOMAIN SignUpsOf(data) : HasKey(SignUpsOf(data)[j], "name")}}

SignupsDone == cmd = "signups" /\ pc = "done"

CompareDone == cmd = "compare" /\ pc = "done"

\* compare ended after both fetches returned status 200
CompareFetchedBoth == CompareDone /\ data1 # NoneVal /\ data2 # NoneVal

-----------------------------------------------------------------------------
(* C1 *)

\* C1 as stated: a signups invocation whose fetch completed has sent exactly
\* one message: the text naming the identifier after a non-200 status, the
\* "no active signups" text when no sign-up qualifies, and the embed titled
\* "Active Signups" when one does.
C1_AsStated ==
    (SignupsDone /\ raised # "ClientError") =>
        /\ Len(sent) = 1
        /\ data1 = NoneVal =>
               IsText(sent[1]) /\ Contains(sent[1].content, event_id1)
        /\ (data1 # NoneVal /\ IncludedAt(data1) = {}) =>
               sent[1] = TextMsg(NoActiveSignupsText)
        /\ (data1 # NoneVal /\ IncludedAt(data1) # {}) =>
               IsEmbed(sent[1]) /\ sent[1].embed.title = "Active Signups"

-----------------------------------------------------------------------------
(* C2 *)

\* C2 as stated: when a fetch of compare returned a non-200 status, the one
\* message sent names an identifier whose fetch failed, and no embed is sent.
C2_AsStated ==
    (CompareDone /\ raised = "" /\ (data1 = NoneVal \/ data2 = NoneVal)) =>
        /\ Len(sent) = 1
        /\ IsText(sent[1])
        /\ \/ data1 = NoneVal /\ Contains(sent[1].content, event_id1)
           \/ data2 = NoneVal /\ Contains(sent[1].content, event_id2)

\* C2 amended: when a fetch of compare returned a non-200 status and the
\* other fetch completed, the command sends exactly one text message, the
\* generic "could not fetch one or both", which names neither identifier,
\* and no embed; when a fetch failed at transport level it sends nothing.
C2_GenericFailure ==
    /\ (CompareDone /\ raised = "" /\ (data1 = NoneVal \/ data2 = NoneVal)) =>
           /\ sent = <<TextMsg(CompareFetchFailedText)>>
           /\ ~Contains(sent[1].content, event_id1)
           /\ ~Contains(sent[1].content, event_id2)
           /\ Len(requests) = 2
    /\ (CompareDone /\ raised = "ClientError") => sent = <<>>

\* only the second fetch failed, and the generic message was sent
C2_Witness ==
    /\ CompareDone
    /\ raised = ""
    /\ data1 # NoneVal
    /\ IdsOf(data1) # {}
    /\ data2 = NoneVal
    /\ sent = <<TextMsg(CompareFetchFailedText)>>

-----------------------------------------------------------------------------
(* C3 *)

\* C3 as stated: a transport-level failure of a fetch is answered like a
\* non-200 status, by exactly one fetch-failure text message and no embed.
C3_AsStated ==
    (pc = "done" /\ cmd \in {"signups", "compare"} /\ raised = "ClientError") =>
        /\ Len(sent) = 1
        /\ IsText(sent[1])

-----------------------------------------------------------------------------
(* C4 *)

\* the names signups should list under category c: those of the roster's
\* userIds of that class, in the order of first encounter
RECURSIVE ExpectedNames(_, _, _)
ExpectedNames(data, c, i) ==
    IF i > Len(SignUpsOf(data)) THEN <<>>
    ELSE LET e == SignUpsOf(data)[i]
         IN  (IF /\ i \in IncludedAt(data)
                 /\ FirstAt(data, e.userId) = i
                 /\ ClassOf(data, e.userId) = c
              THEN <<NameOf(data, e.userId)>> ELSE <<>>)
                 \o ExpectedNames(data, c, i + 1)

\* C4 as stated: the roster holds exactly the entries that pass the
\* inclusion rule, and signups groups every roster userId under exactly one
\* category, its own className, names in order of first encounter.
C4_AsStated ==
    (SignupsDone /\ raised # "ClientError" /\ data1 # NoneVal) =>
        /\ DictKeys(parse_active_signups(data1)) = IdsOf(data1)
        /\ \A uid \in IdsOf(data1) :
               DictAt(parse_active_signups(data1), uid) = NameOf(data1, uid)
        /\ IdsOf(data1) # {} =>
               /\ raised = ""
               /\ DictKeys(signups_grouped) = {ClassOf(data1, uid) : uid \in IdsOf(data1)}
               /\ \A c \in DictKeys(signups_grouped) :
                      DictAt(signups_grouped, c) = ExpectedNames(data1, c, 1)

-----------------------------------------------------------------------------
(* C5 *)

\* the userIds of S whose entry in data has class c and name n
Matching(S, data, c, n) ==
    {u \in S : ClassOf(data, u) = c /\ NameOf(data, u) = n}

CompareClasses ==
    ClassesIn(data1) \cup ClassesIn(data2) \cup DictKeys(both_grouped) \cup DictKeys(one_grouped)

CompareNames == NamesIn(data1) \cup NamesIn(data2)

\* C5 as stated: BOTH lists exactly the userIds of ids1 & ids2, with the
\* name and category of the first event; ONLY ONE lists exactly the userIds
\* of ids1 ^ ids2, each under the category of the roster that has it.
C5_AsStated ==
    (CompareFetchedBoth /\ raised = "") =>
        LET ids1 == IdsOf(data1)
            ids2 == IdsOf(data2)
        IN  \A c \in CompareClasses, n \in CompareNames :
                /\ CountIn(both_grouped, c, n)
                       = Cardinality(Matching(ids1 \cap ids2, data1, c, n))
                /\ CountIn(one_grouped, c, n)
                       = Cardinality(Matching(ids1 \ ids2, data1, c, n))
                           + Cardinality(Matching(ids2 \ ids1, data2, c, n))

\* C5 amended: when an included entry of either event has no className key
\* compare raises and sends nothing; otherwise BOTH lists exactly the
\* userIds of ids1 & ids2 whose className in the first event is not empty,
\* with the name and category of the first event, and ONLY ONE lists exactly
\* the userIds of ids1 ^ ids2 whose className is not empty, each under the
\* category of the roster that has it; an empty className is dropped.
C5_CompareSets ==
    (CompareFetchedBoth /\ raised # "ClientError") =>
        IF LacksClassName(data1) \/ LacksClassName(data2)
        THEN raised = "KeyError" /\ sent = <<>>
        ELSE LET ids1 == IdsOf(data1)
                 ids2 == IdsOf(data2)
             IN  /\ raised = ""
                 /\ \A c \in CompareClasses, n \in CompareNames :
                        IF c = ""
                        THEN CountIn(both_grouped, c, n) = 0 /\ CountIn(one_grouped, c, n) = 0
                        ELSE /\ CountIn(both_grouped, c, n)
                                    = Cardinality(Matching(ids1 \cap ids2, data1, c, n))
                             /\ CountIn(one_grouped, c, n)
                                    = Cardinality(Matching(ids1 \ ids2, data1, c, n))
                                        + Cardinality(Matching(ids2 \ ids1, data2, c, n))
                 /\ sent[1] = EmbedMsg(build_signups_embed(TitleBoth, both_grouped))
                 /\ sent[2] = EmbedMsg(build_signups_embed(TitleOne, one_grouped))

\* user a is in both events under another name and class, b only in the
\* first, c only in the second with an empty className
C5_Witness ==
    /\ CompareFetchedBoth
    /\ SignUpsOf(data1) = << [userId |-> "a", name |-> "Al", className |-> "Healer"],
                               [userId |-> "b", name |-> "Bo", className |-> "Tank"] >>
    /\ SignUpsOf(data2) = << [userId |-> "a", name |-> "Ann", className |-> "Tank"],
                               [userId |-> "c", name |-> "Cy", className |-> ""] >>
    /\ both_grouped = << <<"Healer", <<"Al">> >> >>
    /\ one_grouped = << <<"Tank", <<"Bo">> >> >>
    /\ Len(sent) = 2

-----------------------------------------------------------------------------
(* C6 *)

\* C6 as stated: when the two rosters share no userId, BOTH has no section
\* and ONLY ONE lists the name of every userId of either roster exactly once.
C6_AsStated ==
    (CompareFetchedBoth /\ raised = "" /\ IdsOf(data1) \cap IdsOf(data2) = {}) =>
        /\ both_grouped = <<>>
        /\ sent[1].embed.fields = <<>>
        /\ \A n \in CompareNames :
               CountAll(one_grouped, n)
                   = Cardinality({u \in IdsOf(data1) : NameOf(data1, u) = n})
                       + Cardinality({u \in IdsOf(data2) : NameOf(data2, u) = n})

\* C6 amended: when the two rosters share no userId, then either an included
\* entry has no className key and compare raises and sends nothing, or BOTH
\* has no section and ONLY ONE lists exactly once the name of every userId
\* of either roster whose className is not empty; the others are dropped.
C6_DisjointUnion ==
    (CompareFetchedBoth /\ raised # "ClientError" /\ IdsOf(data1) \cap IdsOf(data2) = {}) =>
        IF LacksClassName(data1) \/ LacksClassName(data2)
        THEN raised = "KeyError" /\ sent = <<>>
        ELSE /\ both_grouped = <<>>
             /\ Len(sent) = 2
             /\ sent[1].embed.fields = <<>>
             /\ \A n \in CompareNames :
                    CountAll(one_grouped, n)
                        = Cardinality({u \in IdsOf(data1) :
                              NameOf(data1, u) = n /\ ClassOf(data1, u) # ""})
                          + Cardinality({u \in IdsOf(data2) :
                              NameOf(data2, u) = n /\ ClassOf(data2, u) # ""})

\* two rosters without a common userId, one of them with an empty className
C6_Witness ==
    /\ CompareFetchedBoth
    /\ IdsOf(data1) = {"a"}
    /\ IdsOf(data2) = {"b", "c"}
    /\ ~LacksClassName(data2)
    /\ ClassOf(data2, "c") = ""
    /\ both_grouped = <<>>
    /\ Len(one_grouped) = 2
    /\ Len(sent) = 2

-----------------------------------------------------------------------------
(* C7 *)

\* C7 as stated: compare requests the second event only after the first
\* fetch has ended, one request per event; after two successful fetches it
\* sends the BOTH embed, pauses, sends the ONLY ONE embed, and nothing else.
C7_AsStated ==
    cmd = "compare" =>
        /\ Len(requests) <= responses + 1
        /\ Len(requests) <= 2
        /\ requests[1] = EventUrl(event_id1)
        /\ Len(requests) = 2 => requests[2] = EventUrl(event_id2)
        /\ pc = "compare_sleep" =>
               /\ Len(sent) = 1
               /\ IsEmbed(sent[1]) /\ sent[1].embed.title = TitleBoth
               /\ paused = 0
        /\ (pc = "done" /\ data1 # NoneVal /\ data2 # NoneVal /\ raised # "ClientError") =>
               /\ Len(sent) = 2
               /\ IsEmbed(sent[1]) /\ sent[1].embed.title = TitleBoth
               /\ IsEmbed(sent[2]) /\ sent[2].embed.title = TitleOne
               /\ paused = 1

-----------------------------------------------------------------------------
(* C10 *)

\* C10 as stated: an included participant whose className is missing or
\* empty is listed under "Unknown" by signups and is dropped by compare, and
\* neither command fails.
C10_AsStated ==
    /\ (SignupsDone /\ raised # "ClientError" /\ data1 # NoneVal) =>
           \A uid \in IdsOf(data1) :
               Unresolved(data1, uid) =>
                   /\ raised = ""
                   /\ CountIn(signups_grouped, "Unknown", NameOf(data1, uid)) >= 1
    /\ (CompareFetchedBoth /\ raised # "ClientError") =>
           /\ \A uid \in IdsOf(data1) : Unresolved(data1, uid) => raised = ""
           /\ \A uid \in IdsOf(data2) : Unresolved(data2, uid) => raised = ""
           /\ ~DictHas(both_grouped, "Unknown")
           /\ ~DictHas(one_grouped, "Unknown")

====
